---- MODULE Spec2Model ----
(***************************************************************************)
(* NoTamperData: anchoring of content hashes on the Cardano ledger.        *)
(*                                                                         *)
(*   - the on-chain validator NoTamperData_registry (Aiken),               *)
(*   - the off-chain functions storeHash and verifyHash (Lucid/Blockfrost),*)
(*   - the deployment scripts deploy-adaverc.ts / deploy-notamperdata.ts.  *)
(*                                                                         *)
(* The ledger, the Blockfrost provider and the Lucid transaction builder   *)
(* are the environment; they are modelled by what the calls the code makes *)
(* can observe of them.                                                    *)
(***************************************************************************)
EXTENDS Integers, Sequences, FiniteSets, TLC

VARIABLES
    utxos,      \* the agent wallet's unspent outputs, as the ledger has them
    mempool,    \* indices of the transactions the ledger accepted, not yet in a block
    chain,      \* the confirmed transactions, in ledger order
    txs,        \* the transactions built by this program, in build order
    vlast,      \* the last verifyHash call: its argument, the ledger it saw, its result,
                \* and whether the call before it had the same argument and ledger
    env,        \* the deployment script run: which script, its arguments and environment
    run,        \* the deployment run: where it is and what it holds
    out,        \* deployment-output.json, as this run wrote it
    val         \* an invocation of the on-chain validator: its arguments and result

vars == <<utxos, mempool, chain, txs, vlast, env, run, out, val>>
deployVars == <<env, run, out>>

----------------------------------------------------------------------------
(* Bounds of the model *)

\* transactions concurrent callers build in one behaviour
MaxTxs == 2
\* transactions a caller that awaits each call builds in one behaviour
MaxStores == 3
\* transactions of other wallets that carry metadata label 8434
MaxForeign == 1
\* verifyHash calls in one behaviour
MaxCalls == 2
\* entries of one result page of the metadata endpoint (Blockfrost: 100)
PageSize == 2

(* Program constants *)

Label == 8434
StoreLovelace == 2000000
DeployLovelace == 5000000
Fee == 175000
GenesisLovelace == 10000000

Hashes == {"h1", "h2"}
\* a hash nobody anchors
UnknownHash == "h0"
\* the hash h1 as a caller writes it with upper-case letters
UpperHash == "H1"
Forms == {"form-1"}

None == <<>>
Some(x) == <<x>>

Min(a, b) == IF a < b THEN a ELSE b

WalletAddress == "agent"
ContractAddress == "contract"

----------------------------------------------------------------------------
(* storeHash: build, sign, submit *)

\* the clock read by Date.now(): it advances with every build
Now == Len(txs) + 1

\* the metadata object storeHash attaches under label 8434
StoreMetadata(hash, formId, responseId) ==
    [hash |-> hash, form_id |-> formId, response_id |-> responseId,
     timestamp |-> Now, version |-> "1.0"]

\* complete(): coin selection over the wallet's unspent outputs. The program
\* keeps no record of the outputs earlier builds selected.
Spendable(lock) == {u \in utxos : u.lovelace >= lock + Fee}

\* the inline datum storeHash puts on the contract output
VoidDatum == "Data.void()"

\* a builder that pays everything left of the input to the destination
BuiltTx_nochange(kind, u, address, datum, lock, label, metadata) ==
    [kind |-> kind, state |-> "Built", input |-> u,
     output |-> [address |-> address, datum |-> datum,
                 lovelace |-> u.lovelace - Fee],
     change |-> [address |-> WalletAddress, lovelace |-> 0],
     label |-> label, metadata |-> metadata, signatures |-> 0, attempts |-> 0,
     id |-> None, error |-> None, awaited |-> FALSE]

\* newTx().payToContract(address, datum, {lovelace}).addMetadata(label, ...).complete():
\* one output for the payment, the metadata in the transaction's auxiliary
\* data, the rest of the selected input back to the wallet as change
BuiltTx(kind, u, address, datum, lock, label, metadata) ==
    [kind |-> kind, state |-> "Built", input |-> u,
     output |-> [address |-> address, datum |-> datum, lovelace |-> lock],
     change |-> [address |-> WalletAddress, lovelace |-> u.lovelace - lock - Fee],
     label |-> label, metadata |-> metadata, signatures |-> 0, attempts |-> 0,
     id |-> None, error |-> None, awaited |-> FALSE]

StoreHash_build(hash, formId) ==
    /\ \E u \in Spendable(StoreLovelace) :
          txs' = Append(txs,
                   BuiltTx("store", u, ContractAddress, Some(VoidDatum),
                           StoreLovelace, Some(Label),
                           Some(StoreMetadata(hash, formId, Len(txs) + 1))))
    /\ UNCHANGED <<utxos, mempool, chain, vlast, deployVars, val>>

\* tx.sign().complete()
SignTx(i) ==
    /\ txs[i].state = "Built"
    /\ txs[i].error = None
    /\ txs' = [txs EXCEPT ![i].state = "Signed", ![i].signatures = @ + 1]
    /\ UNCHANGED <<utxos, mempool, chain, vlast, deployVars, val>>

\* tx.sign().complete() throws: the transaction stays unsigned
SignFails(i) ==
    /\ txs[i].state = "Built"
    /\ txs[i].error = None
    /\ txs' = [txs EXCEPT ![i].error = Some("signing failed")]
    /\ UNCHANGED <<utxos, mempool, chain, vlast, deployVars, val>>

\* a submit that does not wait for the signature
SubmitTx_unsigned(i) ==
    /\ txs[i].state \in {"Built", "Signed"}
    /\ txs[i].error = None
    /\ txs' = [txs EXCEPT ![i].state = "Submitted", ![i].attempts = @ + 1]
    /\ UNCHANGED <<utxos, mempool, chain, vlast, deployVars, val>>

\* .submit(): the signed transaction is sent to the provider
SubmitTx(i) ==
    /\ txs[i].state = "Signed"
    /\ txs' = [txs EXCEPT ![i].state = "Submitted", ![i].attempts = @ + 1]
    /\ UNCHANGED <<utxos, mempool, chain, vlast, deployVars, val>>

\* the ledger takes a transaction whose input is unspent and not claimed by a
\* transaction it already holds
LedgerAccepts(i) ==
    /\ txs[i].input \in utxos
    /\ \A j \in mempool : txs[j].input # txs[i].input

\* submit() returns the transaction hash, or throws
SubmitReturn(i) ==
    /\ txs[i].state = "Submitted"
    /\ txs[i].id = None
    /\ IF LedgerAccepts(i)
          THEN /\ txs' = [txs EXCEPT ![i].id = Some(i)]
               /\ mempool' = mempool \cup {i}
          ELSE /\ txs' = [txs EXCEPT ![i].state = "Rejected",
                                      ![i].error = Some("rejected by the ledger")]
               /\ UNCHANGED mempool
    /\ UNCHANGED <<utxos, chain, vlast, deployVars, val>>

\* submit() throws because the request did not reach the provider
SubmitFails(i) ==
    /\ txs[i].state = "Submitted"
    /\ txs[i].id = None
    /\ txs' = [txs EXCEPT ![i].state = "Rejected", ![i].error = Some("network error")]
    /\ UNCHANGED <<utxos, mempool, chain, vlast, deployVars, val>>

----------------------------------------------------------------------------
(* The ledger *)

ChainEntry(txHash, label, metadata) ==
    [tx_hash |-> txHash, label |-> label, metadata |-> metadata]

\* a block includes an accepted transaction: its input is spent, its change
\* output becomes an unspent output of the wallet
Confirm(i) ==
    /\ i \in mempool
    /\ mempool' = mempool \ {i}
    /\ chain' = Append(chain, ChainEntry(i, txs[i].label, txs[i].metadata))
    /\ utxos' = (utxos \ {txs[i].input})
                   \cup {[ref |-> <<i, 1>>, lovelace |-> txs[i].change.lovelace]}
    /\ UNCHANGED <<txs, vlast, deployVars, val>>

\* an accepted transaction leaves the mempool without ever being included
Drop(i) ==
    /\ i \in mempool
    /\ mempool' = mempool \ {i}
    /\ UNCHANGED <<utxos, chain, txs, vlast, deployVars, val>>

\* the transactions of other wallets have negative numbers for hashes
ForeignCount == Cardinality({k \in DOMAIN chain : chain[k].tx_hash < 0})

\* metadata another wallet files under label 8434: a record of the same
\* shape, or one with no hash field
ForeignMetadata ==
    {[hash |-> "h1", form_id |-> "other", response_id |-> "other",
      timestamp |-> 0, version |-> "1.0"],
     [note |-> "other"]}

ForeignAnchor(m) ==
    /\ ForeignCount < MaxForeign
    /\ chain' = Append(chain, ChainEntry(-(1 + ForeignCount), Some(Label), Some(m)))
    /\ UNCHANGED <<utxos, mempool, txs, vlast, deployVars, val>>

----------------------------------------------------------------------------
(* verifyHash *)

\* GET /metadata/txs/labels/8434: the transactions with metadata under the
\* label, in ledger order, each with its position
LabelEntries(c) ==
    LET idx == SelectSeq([k \in DOMAIN c |-> k], LAMBDA k : c[k].label = Some(Label))
    IN  [n \in DOMAIN idx |->
           [tx_hash |-> c[idx[n]].tx_hash,
            json_metadata |-> (Label :> c[idx[n]].metadata[1]),
            block_height |-> idx[n],
            block_time |-> idx[n]]]

\* a request that goes on from the page the call before it read
FetchMetadataTxs_cursor(c) ==
    LET all == LabelEntries(c)
        from == vlast.calls * PageSize
    IN  SubSeq(all, from + 1, Min(from + PageSize, Len(all)))

\* the request names no page and no count: the response is the first page
FetchMetadataTxs(c) ==
    LET all == LabelEntries(c)
    IN  SubSeq(all, 1, Min(PageSize, Len(all)))

\* a match on the label alone
HashMatches_label(tx, hash) ==
    Label \in DOMAIN tx.json_metadata

\* tx.json_metadata["8434"]?.hash === hash
HashMatches(tx, hash) ==
    /\ Label \in DOMAIN tx.json_metadata
    /\ "hash" \in DOMAIN tx.json_metadata[Label]
    /\ tx.json_metadata[Label].hash = hash

\* transactions.find(...): the first match in the order of the response
Find(transactions, hash) ==
    LET hits == {k \in DOMAIN transactions : HashMatches(transactions[k], hash)}
    IN  IF hits = {} THEN None
        ELSE Some(transactions[CHOOSE k \in hits : \A l \in hits : k <= l])

verifyHash(transactions, hash) ==
    LET match == Find(transactions, hash)
    IN  IF match = None
          THEN [verified |-> FALSE, transactionHash |-> None, metadata |-> None,
                blockHeight |-> None, blockTime |-> None]
          ELSE [verified |-> TRUE,
                transactionHash |-> Some(match[1].tx_hash),
                metadata |-> Some(match[1].json_metadata[Label]),
                blockHeight |-> Some(match[1].block_height),
                blockTime |-> Some(match[1].block_time)]

NoCall ==
    [calls |-> 0, hash |-> "", at |-> 0, repeated |-> FALSE,
     result |-> verifyHash(<<>>, "")]

VerifyHash(hash) ==
    /\ vlast.calls < MaxCalls
    /\ vlast' = [calls |-> vlast.calls + 1, hash |-> hash, at |-> Len(chain),
                 repeated |-> (vlast.calls > 0 /\ vlast.hash = hash
                                 /\ vlast.at = Len(chain)),
                 result |-> verifyHash(FetchMetadataTxs(chain), hash)]
    /\ UNCHANGED <<utxos, mempool, chain, txs, deployVars, val>>

----------------------------------------------------------------------------
(* The deployment scripts: deploy-adaverc.ts and deploy-notamperdata.ts *)

Scripts == {"adaverc", "notamperdata"}
Networks == {"Preview", "Preprod", "Mainnet"}

\* networkUrls[network]: the Blockfrost endpoint of a network, undefined for
\* a key the table does not hold
networkUrls(network) == IF network \in Networks THEN Some(network) ELSE None

\* loadConfig(): the configuration, or the error it throws
loadConfig(e) ==
    LET network == IF e.network = "" THEN "Preview" ELSE e.network
    IN  IF e.projectId = ""
          THEN [error |-> Some("BLOCKFROST_PROJECT_ID environment variable is required"),
                config |-> None]
        ELSE IF e.mnemonic = ""
          THEN [error |-> Some("MNEMONIC environment variable is required"),
                config |-> None]
        ELSE [error |-> None,
              config |-> Some([blockfrostProjectId |-> e.projectId,
                               network |-> network,
                               mnemonic |-> e.mnemonic,
                               blockfrostUrl |-> networkUrls(network)])]

\* configNetworkToLucidNetwork (deploy-notamperdata.ts): undefined stands for
\* the default branch, which throws
configNetworkToLucidNetwork(configNetwork) ==
    IF configNetwork \in Networks THEN Some(configNetwork) ELSE None

\* an exception leaves the try block of the deployment function
Throw(msg) == [run EXCEPT !.pc = "catchDeploy", !.error = Some(msg)]

\* main(): the argument check
Main ==
    /\ run.pc = "main"
    /\ run' = IF env.help
                THEN [run EXCEPT !.pc = "exited", !.exit = Some(0)]
                ELSE [run EXCEPT !.pc = "loadConfig"]
    /\ UNCHANGED <<utxos, mempool, chain, txs, vlast, env, out, val>>

LoadConfig ==
    /\ run.pc = "loadConfig"
    /\ LET r == loadConfig(env)
       IN  run' = IF r.error # None
                    THEN Throw(r.error[1])
                    ELSE [run EXCEPT !.pc = "loadValidators", !.config = r.config]
    /\ UNCHANGED <<utxos, mempool, chain, txs, vlast, env, out, val>>

\* loadValidators(): plutus.json is looked up, read and searched
LoadValidators ==
    /\ run.pc = "loadValidators"
    /\ run' =
         IF env.plutus = "missing"
           THEN [Throw("plutus.json not found") EXCEPT !.io = @ \cup {"fs.existsSync"}]
         ELSE IF env.plutus = "no validator"
           THEN [Throw("spend validator not found in plutus.json")
                   EXCEPT !.io = @ \cup {"fs.existsSync", "fs.readFileSync"}]
         ELSE [run EXCEPT !.pc = "initLucid",
                          !.io = @ \cup {"fs.existsSync", "fs.readFileSync"},
                          !.validators = Some([compiledCode |-> "code", hash |-> "vhash"])]
    /\ UNCHANGED <<utxos, mempool, chain, txs, vlast, env, out, val>>

\* the network initLucid hands to Lucid: deploy-adaverc.ts writes 'Preview',
\* deploy-notamperdata.ts maps the configured network
LucidNetworkOf(script, config) ==
    IF script = "adaverc" THEN Some("Preview")
    ELSE configNetworkToLucidNetwork(config.network)

\* initLucid(): the provider is created, Lucid asks it for the protocol
\* parameters, the wallet is selected from the mnemonic
InitLucid ==
    /\ run.pc = "initLucid"
    /\ LET config == run.config[1]
           network == LucidNetworkOf(env.script, config)
       IN  run' =
             IF network = None
               THEN Throw("Unsupported network")
             ELSE IF config.blockfrostUrl = None \/ config.blockfrostProjectId # "ok"
               THEN [Throw("provider request failed")
                       EXCEPT !.io = @ \cup {"new Blockfrost", "provider request"}]
             ELSE IF config.mnemonic # "ok"
               THEN [Throw("invalid mnemonic")
                       EXCEPT !.io = @ \cup {"new Blockfrost", "provider request"}]
             ELSE [run EXCEPT !.pc = "address",
                              !.io = @ \cup {"new Blockfrost", "provider request"},
                              !.lucid = Some([network |-> network[1],
                                              url |-> config.blockfrostUrl[1]])]
    /\ UNCHANGED <<utxos, mempool, chain, txs, vlast, env, out, val>>

\* the network the contract address is derived for: lucid.config().network
\* in deploy-adaverc.ts, the configured network in deploy-notamperdata.ts
AddressNetworkOf(script, config, lucid) ==
    IF script = "adaverc" THEN lucid.network
    ELSE configNetworkToLucidNetwork(config.network)[1]

\* validatorToAddress(network, validator)
validatorToAddress(network, validator) == [network |-> network, script |-> validator]

DeriveAddress ==
    /\ run.pc = "address"
    /\ run' = [run EXCEPT
                 !.pc = "build",
                 !.address = Some(validatorToAddress(
                                AddressNetworkOf(env.script, run.config[1], run.lucid[1]),
                                run.validators[1].compiledCode))]
    /\ UNCHANGED <<utxos, mempool, chain, txs, vlast, env, out, val>>

\* newTx().pay.ToAddress(contractAddress, {lovelace: 5000000}) and complete()
DeployBuild ==
    /\ run.pc = "build"
    /\ Len(txs) < MaxTxs
    /\ IF Spendable(DeployLovelace) = {}
         THEN /\ run' = Throw("insufficient funds")
              /\ UNCHANGED txs
         ELSE \E u \in Spendable(DeployLovelace) :
                /\ txs' = Append(txs, BuiltTx("deploy", u, run.address[1], None,
                                              DeployLovelace, None, None))
                /\ run' = [run EXCEPT !.pc = "tx", !.tx = Len(txs) + 1]
    /\ UNCHANGED <<utxos, mempool, chain, vlast, env, out, val>>

\* sign or submit threw: the exception reaches the catch block
DeployThrown ==
    /\ run.pc = "tx"
    /\ txs[run.tx].error # None
    /\ run' = Throw(txs[run.tx].error[1])
    /\ UNCHANGED <<utxos, mempool, chain, txs, vlast, env, out, val>>

\* submit() returned the hash: waitForTx(lucid, deploymentTxHash) is called
DeployAwait ==
    /\ run.pc = "tx"
    /\ txs[run.tx].id # None
    /\ run' = [run EXCEPT !.pc = "await"]
    /\ txs' = [txs EXCEPT ![run.tx].awaited = TRUE]
    /\ UNCHANGED <<utxos, mempool, chain, vlast, env, out, val>>

\* lucid.awaitTx(txHash) polls the provider until it knows the transaction;
\* it takes no deadline
AwaitReturn ==
    /\ run.pc = "await"
    /\ \E k \in DOMAIN chain : chain[k].tx_hash = txs[run.tx].id[1]
    /\ run' = [run EXCEPT !.pc = "save"]
    /\ txs' = [txs EXCEPT ![run.tx].state = "Confirmed"]
    /\ UNCHANGED <<utxos, mempool, chain, vlast, env, out, val>>

\* a request of the wait throws
AwaitFails ==
    /\ run.pc = "await"
    /\ run' = Throw("provider request failed")
    /\ UNCHANGED <<utxos, mempool, chain, txs, vlast, env, out, val>>

\* the DeploymentOutput object (its timestamp left out)
DeploymentOutput ==
    [contractAddress |-> run.address[1],
     validatorHash |-> run.validators[1].hash,
     deploymentTxHash |-> txs[run.tx].id[1],
     network |-> run.config[1].network]

\* saveDeploymentOutput(), then the function and main return
SaveOutput ==
    /\ run.pc = "save"
    /\ out' = Some(DeploymentOutput)
    /\ run' = [run EXCEPT !.pc = "exited", !.exit = Some(0),
                          !.io = @ \cup {"fs.writeFileSync"}]
    /\ UNCHANGED <<utxos, mempool, chain, txs, vlast, env, val>>

\* a catch block that logs and returns
CatchDeploy_swallow ==
    /\ run.pc = "catchDeploy"
    /\ run' = [run EXCEPT !.pc = "exited", !.exit = Some(0)]
    /\ UNCHANGED <<utxos, mempool, chain, txs, vlast, env, out, val>>

\* the catch block of the deployment function: console.error, throw error
CatchDeploy ==
    /\ run.pc = "catchDeploy"
    /\ run' = [run EXCEPT !.pc = "catchMain", !.rethrown = TRUE]
    /\ UNCHANGED <<utxos, mempool, chain, txs, vlast, env, out, val>>

\* the catch block of main: console.error, process.exit(1)
CatchMain ==
    /\ run.pc = "catchMain"
    /\ run' = [run EXCEPT !.pc = "exited", !.exit = Some(1)]
    /\ UNCHANGED <<utxos, mempool, chain, txs, vlast, env, out, val>>

DeployStep ==
    \/ Main
    \/ LoadConfig
    \/ LoadValidators
    \/ InitLucid
    \/ DeriveAddress
    \/ DeployBuild
    \/ DeployThrown
    \/ DeployAwait
    \/ AwaitReturn
    \/ SaveOutput
    \/ CatchDeploy
    \/ CatchMain

\* another process that holds the wallet's key spends one of its outputs
WalletSpend(u) ==
    /\ u \in utxos
    /\ \A j \in mempool : txs[j].input # u
    /\ utxos' = utxos \ {u}
    /\ UNCHANGED <<mempool, chain, txs, vlast, deployVars, val>>

----------------------------------------------------------------------------
(* The validator NoTamperData_registry *)

Purposes == {"spend", "mint", "withdraw", "publish", "vote", "propose"}

\* a spend handler that wants a datum
NoTamperData_registry_datum(purpose, datum, redeemer, own_ref, tx) ==
    purpose = "spend" /\ datum # None

\* spend(_datum, _redeemer, _own_ref, _tx) { True }   else(_) { False }
NoTamperData_registry(purpose, datum, redeemer, own_ref, tx) ==
    IF purpose = "spend" THEN TRUE ELSE FALSE

Validate ==
    /\ val.result = None
    /\ val' = [val EXCEPT !.result =
                 Some(NoTamperData_registry(val.purpose, val.datum, val.redeemer,
                                            val.own_ref, val.tx))]
    /\ UNCHANGED <<utxos, mempool, chain, txs, vlast, deployVars>>

----------------------------------------------------------------------------
(* Initial states *)

GenesisUtxos ==
    {[ref |-> <<0, 0>>, lovelace |-> GenesisLovelace],
     [ref |-> <<0, 1>>, lovelace |-> GenesisLovelace]}

\* a wallet that cannot pay for the deployment
PoorUtxos == {[ref |-> <<0, 0>>, lovelace |-> StoreLovelace + Fee]}

NoRun ==
    [pc |-> "off", config |-> None, validators |-> None, lucid |-> None,
     address |-> None, tx |-> 0, error |-> None, rethrown |-> FALSE,
     exit |-> None, io |-> {}]

NoEnv ==
    [script |-> "notamperdata", help |-> FALSE, projectId |-> "ok",
     mnemonic |-> "ok", network |-> "", plutus |-> "ok"]

NoVal ==
    [purpose |-> "spend", datum |-> None, redeemer |-> "Void",
     own_ref |-> <<0, 0>>, tx |-> "tx", result |-> Some(TRUE)]

InitLedger ==
    /\ mempool = {}
    /\ chain = <<>>
    /\ txs = <<>>
    /\ vlast = NoCall

(* Concurrent callers: storeHash calls and a deployment run share the wallet *)

Init ==
    /\ InitLedger
    /\ utxos = GenesisUtxos
    /\ env \in {[NoEnv EXCEPT !.script = s] : s \in Scripts}
    /\ run = [NoRun EXCEPT !.pc = "main"]
    /\ out = None
    /\ val = NoVal

TxStep ==
    \/ \E i \in DOMAIN txs : SignTx(i)
    \/ \E i \in DOMAIN txs : SubmitTx(i)
    \/ \E i \in DOMAIN txs : SubmitReturn(i)

\* a call into the wallet or the provider throws
FaultStep ==
    \/ \E i \in DOMAIN txs : SignFails(i)
    \/ \E i \in DOMAIN txs : SubmitFails(i)
    \/ AwaitFails

LedgerStep ==
    \/ \E i \in DOMAIN txs : Confirm(i)
    \/ \E i \in DOMAIN txs : Drop(i)

Next ==
    \/ /\ Len(txs) < MaxTxs
       /\ \E f \in Forms : StoreHash_build("h1", f)
    \/ TxStep
    \/ FaultStep
    \/ LedgerStep
    \/ DeployStep

Spec == Init /\ [][Next]_vars

(* A caller that awaits each storeHash call before the next, and verifies *)

Settled(i) == txs[i].error # None \/ (txs[i].id # None /\ i \notin mempool)

InitVerify ==
    /\ InitLedger
    /\ utxos = {[ref |-> <<0, 0>>, lovelace |-> GenesisLovelace]}
    /\ env = NoEnv
    /\ run = NoRun
    /\ out = None
    /\ val = NoVal

NextVerify ==
    \/ /\ Len(txs) < MaxStores
       /\ \A i \in DOMAIN txs : Settled(i)
       /\ \E h \in Hashes, f \in Forms : StoreHash_build(h, f)
    \/ TxStep
    \/ \E i \in DOMAIN txs : Confirm(i)
    \/ \E m \in ForeignMetadata : ForeignAnchor(m)
    \/ \E h \in Hashes \cup {UnknownHash, UpperHash} : VerifyHash(h)

SpecVerify == InitVerify /\ [][NextVerify]_vars

(* One run of a deployment script, for every environment it can be given *)

Environments ==
    [script : Scripts, help : BOOLEAN, projectId : {"", "bad", "ok"},
     mnemonic : {"", "bad", "ok"},
     network : {"", "Preview", "Preprod", "Mainnet", "Testnet"},
     plutus : {"missing", "no validator", "ok"}]

InitDeploy ==
    /\ InitLedger
    /\ utxos \in {GenesisUtxos, PoorUtxos}
    /\ env \in Environments
    /\ run = [NoRun EXCEPT !.pc = "main"]
    /\ out = None
    /\ val = NoVal

NextDeploy ==
    \/ DeployStep
    \/ TxStep
    \/ FaultStep
    \/ LedgerStep
    \/ \E u \in utxos : WalletSpend(u)

SpecDeploy == InitDeploy /\ [][NextDeploy]_vars

\* the script's steps are taken while they can be, and the ledger settles
\* every transaction it accepted, one way or the other; no call is bound to
\* throw
FairSpecDeploy ==
    SpecDeploy /\ WF_vars(DeployStep) /\ WF_vars(TxStep) /\ WF_vars(LedgerStep)

(* One invocation of the validator, for every purpose and argument *)

InitValidator ==
    /\ InitLedger
    /\ utxos = GenesisUtxos
    /\ env = NoEnv
    /\ run = NoRun
    /\ out = None
    /\ val \in [purpose : Purposes, datum : {None, Some("d1"), Some("d2")},
                redeemer : {"Void", "r1"}, own_ref : {<<0, 0>>, <<1, 0>>},
                tx : {"tx1", "tx2"}, result : {None}]

NextValidator == Validate

SpecValidator == InitValidator /\ [][NextValidator]_vars

----------------------------------------------------------------------------
(* Properties *)

\* C1: the validator accepts an invocation exactly when its purpose is
\* spend, whatever the datum (None included), redeemer, reference and
\* transaction.
ValidatorAcceptsExactlySpend ==
    val.result # None => (val.result[1] = TRUE <=> val.purpose = "spend")

ValidatorAcceptedSpendWithoutDatum ==
    /\ val.purpose = "spend"
    /\ val.datum = None
    /\ val.redeemer = "r1"
    /\ val.result = Some(TRUE)

\* the edges of Built -> Signed -> Submitted -> {Confirmed, Rejected, TimedOut}
LifecycleEdges ==
    {<<"Built", "Signed">>, <<"Signed", "Submitted">>, <<"Submitted", "Confirmed">>,
     <<"Submitted", "Rejected">>, <<"Submitted", "TimedOut">>}

\* C2: a transaction starts Built and moves only along the edges of
\* Built -> Signed -> Submitted -> {Confirmed, Rejected, TimedOut}: it is
\* not submitted before it is signed, its confirmation is awaited only once
\* submit returned its identifier, and it is signed exactly once.
TransactionLifecycle ==
    [][ /\ \A i \in DOMAIN txs :
             txs'[i].state # txs[i].state =>
                 <<txs[i].state, txs'[i].state>> \in LifecycleEdges
        /\ \A i \in DOMAIN txs' :
             /\ i \notin DOMAIN txs => txs'[i].state = "Built"
             /\ txs'[i].signatures = (IF txs'[i].state = "Built" THEN 0 ELSE 1)
             /\ txs'[i].awaited => txs'[i].id # None
             /\ txs'[i].id # None => txs'[i].state \in {"Submitted", "Confirmed"}
             /\ txs'[i].state = "Confirmed" => txs'[i].awaited
      ]_vars

DeployConfirmedAndStoreSubmitted ==
    \E i, j \in DOMAIN txs :
        /\ txs[i].kind = "deploy" /\ txs[i].state = "Confirmed"
        /\ txs[j].kind = "store" /\ txs[j].state = "Submitted" /\ txs[j].id # None

\* a transaction that is built and whose submit has not returned yet
InFlight(i) ==
    /\ txs[i].error = None
    /\ \/ txs[i].state \in {"Built", "Signed"}
       \/ txs[i].state = "Submitted" /\ txs[i].id = None

\* C3: no two transactions in flight at the same moment spend the same
\* funding unit.
NoSharedFundingUnit ==
    \A i, j \in DOMAIN txs :
        (i # j /\ InFlight(i) /\ InFlight(j)) => txs[i].input # txs[j].input

\* the record of the k-th confirmed transaction carries this hash
Anchors(k, hash) ==
    /\ chain[k].label = Some(Label)
    /\ "hash" \in DOMAIN chain[k].metadata[1]
    /\ chain[k].metadata[1].hash = hash

\* the ledger positions, as the last verifyHash call saw them, that anchor
\* the hash it asked for
Anchored == {k \in 1..vlast.at : Anchors(k, vlast.hash)}

Earliest(S) == CHOOSE k \in S : \A l \in S : k <= l

\* C4: verifyHash(h), called when a confirmed transaction anchors h, returns
\* verified with that transaction's hash and its record (stated for the
\* first transaction that anchors h).
AnchoredHashIsVerified ==
    (vlast.calls > 0 /\ Anchored # {}) =>
        /\ vlast.result.verified
        /\ vlast.result.transactionHash = Some(chain[Earliest(Anchored)].tx_hash)
        /\ vlast.result.metadata = Some(chain[Earliest(Anchored)].metadata[1])

\* C5: when two or more confirmed transactions anchor the same hash,
\* verifyHash returns the one at the earliest ledger position.
EarliestDuplicateIsReturned ==
    (vlast.calls > 0 /\ Cardinality(Anchored) >= 2) =>
        /\ vlast.result.verified
        /\ vlast.result.blockHeight = Some(Earliest(Anchored))
        /\ vlast.result.transactionHash = Some(chain[Earliest(Anchored)].tx_hash)

\* C6: when no record under the label has the hash asked for, the result is
\* verified = false; the other fields of a result are all absent when
\* verified is false and all present when it is true.
ResultFieldsFollowVerified ==
    vlast.calls > 0 =>
        LET r == vlast.result
        IN  /\ Anchored = {} => ~r.verified
            /\ ~r.verified =>
                 /\ r.transactionHash = None /\ r.metadata = None
                 /\ r.blockHeight = None /\ r.blockTime = None
            /\ r.verified =>
                 /\ r.transactionHash # None /\ r.metadata # None
                 /\ r.blockHeight # None /\ r.blockTime # None
                 /\ r.metadata[1].hash = vlast.hash

NoMatchAmongRecords ==
    /\ vlast.calls > 0
    /\ vlast.at >= 2
    /\ Anchored = {}
    /\ \E k \in 1..vlast.at : Anchors(k, "h1")
    /\ ~vlast.result.verified

InvalidConfiguration ==
    \/ env.projectId # "ok"
    \/ env.mnemonic # "ok"
    \/ env.network \notin Networks \cup {""}

\* C8: with a missing or invalid credential or an invalid network the run
\* fails before any I/O: no file is looked up or read, no provider is
\* created or asked, no transaction is built, and the run ends in failure.
ConfigurationErrorBeforeIO ==
    (InvalidConfiguration /\ ~env.help) =>
        /\ run.io = {}
        /\ run.lucid = None
        /\ run.tx = 0
        /\ run.pc = "exited" => run.exit = Some(1)

\* C9: deployment-output.json is written only once the deployment
\* transaction is submitted and confirmed, with that transaction's hash; a
\* run in which a step failed writes no output, rethrows the error and
\* exits with status 1.
OutputOnlyAfterConfirmation ==
    /\ out # None =>
         /\ run.tx \in DOMAIN txs
         /\ txs[run.tx].id # None
         /\ txs[run.tx].state = "Confirmed"
         /\ \E k \in DOMAIN chain : chain[k].tx_hash = txs[run.tx].id[1]
         /\ out[1].deploymentTxHash = txs[run.tx].id[1]
         /\ run.error = None
    /\ run.error # None =>
         /\ out = None
         /\ "fs.writeFileSync" \notin run.io
         /\ run.pc \in {"catchDeploy", "catchMain", "exited"}
         /\ run.pc \in {"catchMain", "exited"} => run.rethrown
         /\ run.pc = "exited" => run.exit = Some(1)

OutputWritten ==
    /\ out # None
    /\ run.pc = "exited"
    /\ run.exit = Some(0)

\* C10: the wait for confirmation ends: a run that waits for its
\* transaction leaves the wait, confirmed or timed out.
WaitForConfirmationEnds ==
    (run.pc = "await") ~> (run.pc # "await")


----------------------------------------------------------------------------
\* C11: a submission that fails with a network error is attempted again: by
\* the time the error is surfaced to the caller, submit() has been called
\* for the transaction more than once
NetworkErrorIsRetried ==
    \A i \in DOMAIN txs :
        txs[i].error = Some("network error") => txs[i].attempts > 1

\* the place of ledger position k among the entries under the label
RankUnderLabel(k) ==
    Cardinality({j \in 1..k : chain[j].label = Some(Label)})

\* C12: verifyHash finds a matching record wherever it lies among the
\* entries under the label: when the entries span more than one page and
\* every matching record lies after the first page, the result is still
\* verified = true.
MatchBeyondFirstPageIsFound ==
    (/\ vlast.calls > 0
     /\ Anchored # {}
     /\ \A k \in Anchored : RankUnderLabel(k) > PageSize)
        => vlast.result.verified

\* the lower-case form of a hash
toLowerCase(h) == IF h = UpperHash THEN "h1" ELSE h

\* the positions on the first page, as the last call saw the ledger, whose
\* record has the hash asked for once both are written in lower case
MatchesAfterNormalisation ==
    {k \in 1..vlast.at :
        /\ chain[k].label = Some(Label)
        /\ RankUnderLabel(k) <= PageSize
        /\ "hash" \in DOMAIN chain[k].metadata[1]
        /\ toLowerCase(chain[k].metadata[1].hash) = toLowerCase(vlast.hash)}

\* C13: the comparison in verifyHash is case-normalized: a call matches a
\* fetched record exactly when the hash asked for and the record's hash are
\* equal after both are written in lower case.
ComparisonIsCaseNormalized ==
    vlast.calls > 0 =>
        (vlast.result.verified <=> MatchesAfterNormalisation # {})

\* C14: every built transaction pays the lock amount, 5,000,000 lovelace at
\* deployment and 2,000,000 per anchored hash, in its one output at the
\* contract address; a record is attached as transaction metadata under
\* label 8434 and is not the datum of the output; what is left of the input
\* after the lock amount and the fee goes back to the wallet as change.
BuilderPaysLockAndReturnsChange ==
    \A i \in DOMAIN txs :
        LET t == txs[i]
        IN  /\ t.change.address = WalletAddress
            /\ t.change.lovelace = t.input.lovelace - t.output.lovelace - Fee
            /\ t.change.lovelace >= 0
            /\ t.kind = "store" =>
                  /\ t.output.address = ContractAddress
                  /\ t.output.lovelace = StoreLovelace
                  /\ t.label = Some(Label)
                  /\ t.metadata # None
                  /\ "hash" \in DOMAIN t.metadata[1]
                  /\ t.output.datum = Some(VoidDatum)
            /\ t.kind = "deploy" =>
                  /\ run.address # None
                  /\ t.output.address = run.address[1]
                  /\ t.output.lovelace = DeployLovelace
                  /\ t.label = None
                  /\ t.metadata = None
                  /\ t.output.datum = None

\* a deployment transaction and a hash storage transaction have both been
\* built, and one of them is confirmed with its change back in the wallet
DeployAndStoreBuilt ==
    /\ \E i \in DOMAIN txs : txs[i].kind = "deploy"
    /\ \E i \in DOMAIN txs : txs[i].kind = "store"
    /\ \E i \in DOMAIN txs :
          [ref |-> <<i, 1>>, lovelace |-> txs[i].change.lovelace] \in utxos

\* the network CARDANO_NETWORK names, Preview when it is unset
ConfiguredNetwork == IF env.network = "" THEN "Preview" ELSE env.network

\* C15: one network is used throughout a deployment run: the network Lucid
\* is initialised with, the network of the Blockfrost URL, the network the
\* contract address is derived for and the network written to the
\* deployment output are all the configured network.
SameNetworkThroughout ==
    /\ run.lucid # None =>
          /\ run.lucid[1].network = ConfiguredNetwork
          /\ Some(run.lucid[1].url) = networkUrls(ConfiguredNetwork)
    /\ run.address # None => run.address[1].network = ConfiguredNetwork
    /\ out # None => out[1].network = ConfiguredNetwork

====
